---------------------------- MODULE Spec2Model ----------------------------
(***************************************************************************)
(* A model of mgechev/tiny-compiler.                                       *)
(*                                                                         *)
(*   src/tiny.js            lex, parse, eval, transpile (word dialect)     *)
(*   src/unnamed/part_000   the same pipeline with the seeded, reversed    *)
(*                          folds in eval                                  *)
(*   src/unnamed/part_001   the symbolic dialect (+ - * /): parse          *)
(*                                                                         *)
(* A JavaScript string is a sequence of one-character strings.  A          *)
(* JavaScript value is a record tagged by t: "string" (s), "number" (n/d   *)
(* in lowest terms, d = 0 for NaN and the infinities), "undefined", and    *)
(* "TypeError" for a call that throws.  Negative zero is not represented.  *)
(***************************************************************************)
EXTENDS Integers, Sequences, FiniteSets, TLC

VARIABLES input, tokens, c, stack, ast, pc, result, out

vars == <<input, tokens, c, stack, ast, pc, result, out>>

\* ------------------------------------------------------------ bounds

\* Longest token sequence over CoreTokens that Init enumerates.
MaxLen == 4

\* Longest token sequence over AllTokens that Init enumerates.
MaxExtLen == 3

\* Longest token sequence over SymTokens that InitSym enumerates.
MaxSymLen == 3

\* The iterations of a while loop that does not advance the cursor which the
\* model follows (the loop of part_001 itself has no bound).
MaxSpin == 3

\* ------------------------------------------------------------ values

Undefined == [t |-> "undefined"]
TypeError == [t |-> "TypeError"]
Str(s) == [t |-> "string", s |-> s]

Abs(x) == IF x < 0 THEN -x ELSE x
Sign(x) == IF x < 0 THEN -1 ELSE IF x > 0 THEN 1 ELSE 0

RECURSIVE Gcd(_, _)
Gcd(a, b) == IF b = 0 THEN a ELSE Gcd(b, a % b)

\* The number n/d; d = 0 gives NaN (n = 0) or an infinity (the sign of n).
Number(n, d) ==
  IF d = 0 THEN [t |-> "number", n |-> Sign(n), d |-> 0]
  ELSE LET g == Gcd(Abs(n), Abs(d))
           s == IF d < 0 THEN -1 ELSE 1
       IN [t |-> "number", n |-> (s * n) \div g, d |-> (s * d) \div g]

Whole(n) == Number(n, 1)
NaN == Number(0, 0)

IsNaN(x) == x.d = 0 /\ x.n = 0
IsInf(x) == x.d = 0 /\ x.n # 0

\* a + b of JavaScript numbers.
Add(a, b) ==
  IF IsNaN(a) \/ IsNaN(b) THEN NaN
  ELSE IF IsInf(a) /\ IsInf(b) THEN (IF a.n = b.n THEN a ELSE NaN)
  ELSE IF IsInf(a) THEN a
  ELSE IF IsInf(b) THEN b
  ELSE Number(a.n * b.d + b.n * a.d, a.d * b.d)

\* a * b of JavaScript numbers.
Mul(a, b) ==
  IF IsNaN(a) \/ IsNaN(b) THEN NaN
  ELSE IF IsInf(a) \/ IsInf(b) THEN Number(Sign(a.n) * Sign(b.n), 0)
  ELSE Number(a.n * b.n, a.d * b.d)

Neg(a) == [a EXCEPT !.n = -a.n]

\* a - b of JavaScript numbers.
Sub(a, b) == Add(a, Neg(b))

\* a / b of JavaScript numbers: x / 0 is an infinity, 0 / 0 is NaN.
Div(a, b) ==
  IF IsNaN(a) \/ IsNaN(b) THEN NaN
  ELSE IF IsInf(a) /\ IsInf(b) THEN NaN
  ELSE IF IsInf(a) THEN Number(a.n * (IF b.n < 0 THEN -1 ELSE 1), 0)
  ELSE IF IsInf(b) THEN Whole(0)
  ELSE Number(a.n * b.d, a.d * b.n)

\* ------------------------------------------------------------ characters

Digit == {"0", "1", "2", "3", "4", "5", "6", "7", "8", "9"}
DigitChars == <<"0", "1", "2", "3", "4", "5", "6", "7", "8", "9">>
DigitVal(ch) == (CHOOSE i \in 1..10 : DigitChars[i] = ch) - 1

\* The white space String.prototype.trim and parseInt strip (the characters of
\* it that the inputs use).
WhiteSpace == {" ", "\t"}

\* ------------------------------------------------------------ lexer

\* str.split(' '): the pieces between single spaces; "" splits to [""].
RECURSIVE split(_, _)
split(str, cur) ==
  IF str = <<>> THEN <<cur>>
  ELSE IF Head(str) = " " THEN <<cur>> \o split(Tail(str), <<>>)
  ELSE split(Tail(str), Append(cur, Head(str)))

RECURSIVE trimStart(_)
trimStart(s) ==
  IF s # <<>> /\ Head(s) \in WhiteSpace THEN trimStart(Tail(s)) ELSE s

RECURSIVE trimEnd(_)
trimEnd(s) ==
  IF s # <<>> /\ s[Len(s)] \in WhiteSpace
  THEN trimEnd(SubSeq(s, 1, Len(s) - 1)) ELSE s

\* s.trim()
trim(s) == trimEnd(trimStart(s))

\* const lex = str => str.split(' ').map(s => s.trim()).filter(s => s.length);
lex(str) ==
  LET pieces == split(str, <<>>)
      trimmed == [i \in 1..Len(pieces) |-> trim(pieces[i])]
      nonEmpty(s) == Len(s) # 0
  IN SelectSeq(trimmed, nonEmpty)

\* ------------------------------------------------------------ parser

Op == "op"
Num == "num"

\* /\d/.test(v): v, as a string, holds a decimal digit somewhere.  The string of
\* undefined is "undefined", which holds none.
Test(v) == v.t = "string" /\ \E i \in 1..Len(v.s) : v.s[i] \in Digit

\* The truth value the while statement gives v: undefined and "" are false.
Truthy(v) == v.t = "string" /\ Len(v.s) > 0

\* The value of the digits s[i..] read left to right from acc.
RECURSIVE digitsValue(_, _, _)
digitsValue(s, i, acc) ==
  IF i <= Len(s) /\ s[i] \in Digit
  THEN digitsValue(s, i + 1, 10 * acc + DigitVal(s[i]))
  ELSE acc

\* parseInt(v) with no radix: leading white space and a sign are skipped, the
\* longest run of decimal digits is read, and NaN is returned when there is
\* none (no input holds the prefix 0x, which would select base 16).
parseInt(v) ==
  IF v.t # "string" THEN NaN
  ELSE LET s == trimStart(v.s)
           signed == s # <<>> /\ Head(s) \in {"+", "-"}
           body == IF signed THEN Tail(s) ELSE s
           sign == IF signed /\ Head(s) = "-" THEN -1 ELSE 1
       IN IF body = <<>> \/ body[1] \notin Digit THEN NaN
          ELSE Whole(sign * digitsValue(body, 1, 0))

\* const peek = () => tokens[c];  an index past the end reads undefined.
peek == IF c < Len(tokens) THEN Str(tokens[c + 1]) ELSE Undefined

\* consumeCursor with the cursor advanced twice.
consumeCursorTwice(k) == k + 2

\* The cursor after tokens[c++].
consumeCursor(k) == k + 1

\* const parseNum = () => ({ val: parseInt(consume()), type: Num });
NumNode(v) == [type |-> Num, val |-> parseInt(v)]

\* const node = { val: consume(), type: Op, expr: [] };
OpNode(v) == [type |-> Op, val |-> v, expr |-> <<>>]

\* loopCond that lets the loop take number tokens only.
loopCondNumbersOnly(v) == Truthy(v) /\ Test(v)

\* while (peek()) ...: the condition of parseOp's loop.
loopCond(v) == Truthy(v)

\* What a call of parseExpr that returns `node` does to the stack of parseOp
\* frames stk: node.expr.push(...) in the caller's frame, or parse's own return.
returnTo(stk, node) ==
  IF stk = <<>>
  THEN [stack |-> <<>>, ast |-> node, pc |-> "done"]
  ELSE [stack |-> [stk EXCEPT ![Len(stk)].expr = Append(@, node)],
        ast |-> Undefined, pc |-> "parse"]

\* ------------------------------------------------------------ evaluator

\* The arrow functions (a, b) => a + b, a - b, a / b, a * b.
binop(sym, a, b) ==
  CASE sym = "+" -> Add(a, b)
    [] sym = "-" -> Sub(a, b)
    [] sym = "/" -> Div(a, b)
    [] sym = "*" -> Mul(a, b)

\* args.reduce((a, b) => a sym b, acc) from index i on.
RECURSIVE reduceFrom(_, _, _, _)
reduceFrom(sym, args, i, acc) ==
  IF i > Len(args) THEN acc
  ELSE reduceFrom(sym, args, i + 1, binop(sym, acc, args[i]))

\* args.reduce(f, init)
reduceSeeded(sym, args, init) == reduceFrom(sym, args, 1, init)

\* args.reduce(f): the first element is the seed; an empty array throws.
reduceUnseeded(sym, args) ==
  IF Len(args) = 0 THEN TypeError ELSE reduceFrom(sym, args, 2, args[1])

\* args.reduce((a, b) => b sym a, acc) from index i on (part_000).
RECURSIVE reduceFlippedFrom(_, _, _, _)
reduceFlippedFrom(sym, args, i, acc) ==
  IF i > Len(args) THEN acc
  ELSE reduceFlippedFrom(sym, args, i + 1, binop(sym, args[i], acc))

tSum == <<"s", "u", "m">>
tSub == <<"s", "u", "b">>
tDiv == <<"d", "i", "v">>
tMul == <<"m", "u", "l">>
OpNames == {tSum, tSub, tDiv, tMul}

\* part_000's opAcMap: every fold is seeded (0, 0, 1, 1) and computes b op a.
opAcMapSeeded(v, args) ==
  IF v.t # "string" \/ v.s \notin OpNames THEN TypeError
  ELSE CASE v.s = tSum -> reduceFlippedFrom("+", args, 1, Whole(0))
         [] v.s = tSub -> reduceFlippedFrom("-", args, 1, Whole(0))
         [] v.s = tDiv -> reduceFlippedFrom("/", args, 1, Whole(1))
         [] v.s = tMul -> reduceFlippedFrom("*", args, 1, Whole(1))

\* tiny.js's opAcMap[v](args); a key the map lacks gives undefined, and calling
\* undefined throws.
opAcMap(v, args) ==
  IF v.t # "string" \/ v.s \notin OpNames THEN TypeError
  ELSE CASE v.s = tSum -> reduceSeeded("+", args, Whole(0))
         [] v.s = tSub -> reduceUnseeded("-", args)
         [] v.s = tDiv -> reduceUnseeded("/", args)
         [] v.s = tMul -> reduceSeeded("*", args, Whole(1))

\* const eval = ast => ...; an exception thrown below propagates.
RECURSIVE eval(_)
eval(a) ==
  IF a.type = Num THEN a.val
  ELSE LET args == [i \in 1..Len(a.expr) |-> eval(a.expr[i])]
       IN IF \E i \in 1..Len(args) : args[i].t = "TypeError" THEN TypeError
          ELSE opAcMap(a.val, args)

\* ------------------------------------------------------------ code generator

\* The decimal digits of n >= 0.
RECURSIVE natToString(_)
natToString(n) ==
  IF n < 10 THEN <<DigitChars[n + 1]>>
  ELSE Append(natToString(n \div 10), DigitChars[(n % 10) + 1])

\* The string a template literal or + makes of v (numbers: the integers, NaN
\* and the infinities, which is what parseInt returns).
toString(v) ==
  IF v.t = "string" THEN v.s
  ELSE IF v.t = "undefined" THEN <<"u", "n", "d", "e", "f", "i", "n", "e", "d">>
  ELSE IF IsNaN(v) THEN <<"N", "a", "N">>
  ELSE IF IsInf(v)
       THEN (IF v.n < 0 THEN <<"-">> ELSE <<>>)
            \o <<"I", "n", "f", "i", "n", "i", "t", "y">>
  ELSE IF v.n < 0 THEN <<"-">> \o natToString(-v.n)
  ELSE natToString(v.n)

\* opMap with the symbols of sub and sum exchanged.
opMapSwapped(v) ==
  IF v.t # "string" \/ v.s \notin OpNames THEN Undefined
  ELSE CASE v.s = tSum -> Str(<<"-">>)
         [] v.s = tMul -> Str(<<"*">>)
         [] v.s = tSub -> Str(<<"+">>)
         [] v.s = tDiv -> Str(<<"/">>)

\* const opMap = { sum: '+', mul: '*', sub: '-', div: '/' }; opMap[v]
opMap(v) ==
  IF v.t # "string" \/ v.s \notin OpNames THEN Undefined
  ELSE CASE v.s = tSum -> Str(<<"+">>)
         [] v.s = tMul -> Str(<<"*">>)
         [] v.s = tSub -> Str(<<"-">>)
         [] v.s = tDiv -> Str(<<"/">>)

\* pieces.join(sep) from index i on.
RECURSIVE join(_, _, _)
join(pieces, sep, i) ==
  IF i > Len(pieces) THEN <<>>
  ELSE IF i = Len(pieces) THEN pieces[i]
  ELSE pieces[i] \o sep \o join(pieces, sep, i + 1)

\* const transpile = ast => ast.type === Num ? transpileNum(ast) : transpileOp(ast);
\* transpileNum returns the number itself, transpileOp a string.
RECURSIVE transpile(_)
transpile(a) ==
  IF a.type = Num THEN a.val
  ELSE LET pieces == [i \in 1..Len(a.expr) |-> toString(transpile(a.expr[i]))]
           sep == <<" ">> \o toString(opMap(a.val)) \o <<" ">>
       IN Str(<<"(">> \o join(pieces, sep, 1) \o <<")">>)

\* ------------------------------------------------------------ inputs

tFoo == <<"f", "o", "o">>

\* The operator names and three numbers.
CoreTokens == OpNames \cup {<<"0">>, <<"3">>, <<"1", "0">>}

\* CoreTokens, a name that is no operator, and two tokens that mix a digit
\* with a letter.
AllTokens == CoreTokens \cup {tFoo, <<"x", "1">>, <<"1", "a">>}

SeqsUpTo(S, n) == UNION {[1..k -> S] : k \in 0..n}

\* const program = 'mul 3 sub 2 sum 1 3 4';
program ==
  <<"m", "u", "l", " ", "3", " ", "s", "u", "b", " ", "2", " ",
    "s", "u", "m", " ", "1", " ", "3", " ", "4">>

\* The programs the documentation walks through, and two with white space
\* that lex has to drop.
Examples ==
  { program,
    <<"s", "u", "b", " ", "2", " ", "s", "u", "m", " ", "1", " ", "3", " ", "4">>,
    <<"s", "u", "m", " ", "1", " ", "2", " ", "3">>,
    <<"d", "i", "v", " ", "1", "0", " ", "2">>,
    <<"7">>,
    <<" ", " ", "s", "u", "m", " ", " ", "1", "\t", " ", "2", " ">>,
    <<" ", "\t", " ">> }

Programs ==
  {join(ts, <<" ">>, 1) : ts \in SeqsUpTo(CoreTokens, MaxLen)}
  \cup {join(ts, <<" ">>, 1) : ts \in SeqsUpTo(AllTokens, MaxExtLen)}
  \cup Examples

\* ------------------------------------------------------------ tiny.js

Init ==
  /\ input \in Programs
  /\ tokens = <<>>
  /\ c = 0
  /\ stack = <<>>
  /\ ast = Undefined
  /\ pc = "lex"
  /\ result = Undefined
  /\ out = Undefined

\* lex(program)
Lex ==
  /\ pc = "lex"
  /\ tokens' = lex(input)
  /\ pc' = "parse"
  /\ UNCHANGED <<input, c, stack, ast, result, out>>

\* parseExpr, at the top of parse or in the body of parseOp's loop, with a
\* token that holds a digit: parseNum.
ParseNum ==
  /\ pc = "parse"
  /\ stack = <<>> \/ loopCond(peek)
  /\ Test(peek)
  /\ LET r == returnTo(stack, NumNode(peek))
     IN /\ stack' = r.stack
        /\ ast' = r.ast
        /\ pc' = r.pc
  /\ c' = consumeCursor(c)
  /\ UNCHANGED <<input, tokens, result, out>>

\* parseExpr with any other token, undefined included: parseOp opens a node
\* and enters its loop.
ParseOp ==
  /\ pc = "parse"
  /\ stack = <<>> \/ loopCond(peek)
  /\ ~Test(peek)
  /\ stack' = Append(stack, OpNode(peek))
  /\ c' = consumeCursor(c)
  /\ UNCHANGED <<input, tokens, ast, pc, result, out>>

\* parseOp's loop ends and the node is returned.
ParseOpReturn ==
  /\ pc = "parse"
  /\ stack # <<>>
  /\ ~loopCond(peek)
  /\ LET r == returnTo(SubSeq(stack, 1, Len(stack) - 1), stack[Len(stack)])
     IN /\ stack' = r.stack
        /\ ast' = r.ast
        /\ pc' = r.pc
  /\ UNCHANGED <<input, tokens, c, result, out>>

\* eval(parse(lex(program)))
Eval ==
  /\ pc = "done"
  /\ result.t = "undefined"
  /\ result' = eval(ast)
  /\ UNCHANGED <<input, tokens, c, stack, ast, pc, out>>

\* transpile(parse(lex(program)))
Transpile ==
  /\ pc = "done"
  /\ out.t = "undefined"
  /\ out' = transpile(ast)
  /\ UNCHANGED <<input, tokens, c, stack, ast, pc, result>>

Next == Lex \/ ParseNum \/ ParseOp \/ ParseOpReturn \/ Eval \/ Transpile

Spec == Init /\ [][Next]_vars

\* ------------------------------------------------------------ trees

\* The nodes of the tree a, a included.
RECURSIVE Subtrees(_)
Subtrees(a) ==
  IF a.type = Num THEN {a}
  ELSE {a} \cup UNION {Subtrees(a.expr[i]) : i \in 1..Len(a.expr)}

RECURSIVE SumSeq(_, _)
SumSeq(f, i) == IF i > Len(f) THEN 0 ELSE f[i] + SumSeq(f, i + 1)

\* The number of nodes of the tree a.
RECURSIVE NodeCount(_)
NodeCount(a) ==
  IF a.type = Num THEN 1
  ELSE 1 + SumSeq([i \in 1..Len(a.expr) |-> NodeCount(a.expr[i])], 1)

Returned == pc = "done"

\* The token parseExpr sends to parseNum.
IsNumTok(tok) == Test(Str(tok))

\* ------------------------------------------------------------ C2

\* The first index from i on of a token that is no number token, or
\* Len(ts) + 1.
RECURSIVE NextOpIndex(_, _)
NextOpIndex(ts, i) ==
  IF i > Len(ts) \/ ~IsNumTok(ts[i]) THEN i ELSE NextOpIndex(ts, i + 1)

\* The tree nesting by position gives the operator at ts[i]: its operands are
\* the number tokens up to the next operator, then that operator's tree.
RECURSIVE Positional(_, _)
Positional(ts, i) ==
  LET j == NextOpIndex(ts, i + 1)
      nums == [k \in 1..(j - i - 1) |->
                 [type |-> Num, val |-> parseInt(Str(ts[i + k]))]]
  IN [type |-> Op, val |-> Str(ts[i]),
      expr |-> IF j <= Len(ts) THEN Append(nums, Positional(ts, j)) ELSE nums]

\* In every Operation node of a only the last operand may be an Operation.
OnlyLastIsOp(a) ==
  \A n \in Subtrees(a) :
    n.type = Op => \A i \in 1..(Len(n.expr) - 1) : n.expr[i].type = Num

NumLeaf(n) == [type |-> Num, val |-> Whole(n)]

\* mul(3, sub(2, sum(1, 3, 4)))
ProgramTree ==
  [type |-> Op, val |-> Str(tMul), expr |->
    << NumLeaf(3),
       [type |-> Op, val |-> Str(tSub), expr |->
         << NumLeaf(2),
            [type |-> Op, val |-> Str(tSum), expr |->
              << NumLeaf(1), NumLeaf(3), NumLeaf(4) >>] >>] >>]

\* C2: when the first token is an operator, parse consumes every token, only
\* the last operand of any Operation node is an Operation node, and the tree is
\* the one positional nesting gives; [mul,3,sub,2,sum,1,3,4] parses to
\* mul(3, sub(2, sum(1,3,4))).
C2_PositionalNesting ==
  /\ (Returned /\ tokens # <<>> /\ ~IsNumTok(tokens[1])) =>
       /\ c = Len(tokens)
       /\ OnlyLastIsOp(ast)
       /\ ast = Positional(tokens, 1)
  /\ (Returned /\ input = program) => ast = ProgramTree

\* C2 witness: the documented program has been parsed into its nested tree.
C2_Witness ==
  /\ Returned
  /\ input = program
  /\ Len(tokens) = 8
  /\ ast.expr[2].expr[2].type = Op

\* ------------------------------------------------------------ C3

\* ((a1 sym a2) sym a3) ... sym ak
RECURSIVE LeftAssoc(_, _, _)
LeftAssoc(sym, args, k) ==
  IF k = 1 THEN args[1]
  ELSE binop(sym, LeftAssoc(sym, args, k - 1), args[k])

\* What the claim gives for an operator name and evaluated operands.
FoldSpec(name, args) ==
  CASE name = tSum -> Add(Whole(0), LeftAssoc("+", args, Len(args)))
    [] name = tMul -> Mul(Whole(1), LeftAssoc("*", args, Len(args)))
    [] name = tSub -> LeftAssoc("-", args, Len(args))
    [] name = tDiv -> LeftAssoc("/", args, Len(args))

EvaluatedOperands(n) == [i \in 1..Len(n.expr) |-> eval(n.expr[i])]

\* C3: eval of a Number node is its value; eval of an Operation node with one
\* or more evaluated operands is 0 + a0 + ... + an for sum, 1 * a0 * ... * an
\* for mul, and the unseeded left fold for sub and div; the documented program
\* evaluates to -18 and "div 10 2" to 5.
C3_EvalFolds ==
  /\ (Returned /\ result.t # "undefined") =>
       /\ result = eval(ast)
       /\ \A n \in Subtrees(ast) :
            /\ n.type = Num => eval(n) = n.val
            /\ (/\ n.type = Op
                /\ n.val.t = "string"
                /\ n.val.s \in OpNames
                /\ Len(n.expr) >= 1
                /\ \A i \in 1..Len(n.expr) : eval(n.expr[i]).t = "number")
               => eval(n) = FoldSpec(n.val.s, EvaluatedOperands(n))
  /\ (input = program /\ result.t # "undefined") => result = Whole(-18)
  /\ (input = <<"d", "i", "v", " ", "1", "0", " ", "2">> /\ result.t # "undefined")
       => result = Whole(5)

\* C3 witness: the documented program has been evaluated, through a sub node
\* with two operands.
C3_Witness ==
  /\ input = program
  /\ result.t = "number"
  /\ ast.expr[2].val = Str(tSub)
  /\ Len(ast.expr[2].expr) = 2

\* ------------------------------------------------------------ C7

\* C7: when the first token is a number, parse returns the Number node of that
\* token with the cursor at 1, whatever follows; tokens are left unconsumed
\* in that case only.
C7_FirstExpressionOnly ==
  /\ (Returned /\ tokens # <<>> /\ IsNumTok(tokens[1])) =>
       /\ ast = [type |-> Num, val |-> parseInt(Str(tokens[1]))]
       /\ c = 1
  /\ (Returned /\ c < Len(tokens)) => IsNumTok(tokens[1])

\* C7 witness: a number was returned and an operator and its operand were
\* left unconsumed.
C7_Witness ==
  /\ Returned
  /\ Len(tokens) = 3
  /\ IsNumTok(tokens[1])
  /\ tokens[2] = tSum
  /\ c = 1
  /\ ast.type = Num

\* ------------------------------------------------------------ C1

\* num := 0-9, read as digit+: every character is a digit.
isNumber(tok) == Len(tok) >= 1 /\ \A i \in 1..Len(tok) : tok[i] \in Digit

\* expr := num | op expr+.  exprEnds(ts, i) is the set of indices at which an
\* expr starting at i can end (one past its last token), exprPlusEnds the same
\* for expr+.
RECURSIVE exprEnds(_, _)
RECURSIVE exprPlusEnds(_, _)
exprEnds(ts, i) ==
  IF i > Len(ts) THEN {}
  ELSE IF isNumber(ts[i]) THEN {i + 1}
  ELSE IF ts[i] \in OpNames THEN exprPlusEnds(ts, i + 1)
  ELSE {}

exprPlusEnds(ts, i) ==
  LET first == exprEnds(ts, i)
  IN first \cup UNION {exprPlusEnds(ts, j) : j \in first}

\* ts is one expr of the grammar.
IsSentence(ts) == (Len(ts) + 1) \in exprEnds(ts, 1)

\* Some division in a has a divisor that evaluates to zero.
RECURSIVE DividesByZero(_)
DividesByZero(a) ==
  /\ a.type = Op
  /\ \/ \E i \in 1..Len(a.expr) : DividesByZero(a.expr[i])
     \/ /\ a.val = Str(tDiv)
        /\ \E i \in 2..Len(a.expr) : eval(a.expr[i]) = Whole(0)

\* The first index from i on that holds no space.
RECURSIVE skipSpaces(_, _)
skipSpaces(s, i) ==
  IF i <= Len(s) /\ s[i] = " " THEN skipSpaces(s, i + 1) ELSE i

\* The first index from i on that holds no digit.
RECURSIVE digitsEnd(_, _)
digitsEnd(s, i) ==
  IF i <= Len(s) /\ s[i] \in Digit THEN digitsEnd(s, i + 1) ELSE i

NoParse == [ok |-> FALSE, v |-> NaN, i |-> 0]

\* Ordinary infix arithmetic over a string: * and / bind tighter than + and -,
\* operators of one level associate to the left, parentheses group.
\*   expr := term (("+" | "-") term)*     term := factor (("*" | "/") factor)*
\*   factor := digit+ | "(" expr ")"
\* Each operator returns [ok, v, i]: the value read and the index after it.
RECURSIVE infixExpr(_, _)
RECURSIVE infixTerm(_, _)
RECURSIVE infixFactor(_, _)
RECURSIVE infixExprRest(_, _)
RECURSIVE infixTermRest(_, _)
infixFactor(s, i) ==
  LET j == skipSpaces(s, i)
  IN IF j > Len(s) THEN NoParse
     ELSE IF s[j] = "("
     THEN LET r == infixExpr(s, j + 1)
              k == skipSpaces(s, r.i)
          IN IF r.ok /\ k <= Len(s) /\ s[k] = ")"
             THEN [ok |-> TRUE, v |-> r.v, i |-> k + 1]
             ELSE NoParse
     ELSE IF s[j] \in Digit
     THEN [ok |-> TRUE, v |-> Whole(digitsValue(s, j, 0)), i |-> digitsEnd(s, j)]
     ELSE NoParse

infixTermRest(s, acc) ==
  LET j == skipSpaces(s, acc.i)
  IN IF j <= Len(s) /\ s[j] \in {"*", "/"}
     THEN LET f == infixFactor(s, j + 1)
          IN IF f.ok
             THEN infixTermRest(s, [ok |-> TRUE, v |-> binop(s[j], acc.v, f.v),
                                    i |-> f.i])
             ELSE NoParse
     ELSE acc

infixTerm(s, i) ==
  LET f == infixFactor(s, i)
  IN IF f.ok THEN infixTermRest(s, f) ELSE NoParse

infixExprRest(s, acc) ==
  LET j == skipSpaces(s, acc.i)
  IN IF j <= Len(s) /\ s[j] \in {"+", "-"}
     THEN LET f == infixTerm(s, j + 1)
          IN IF f.ok
             THEN infixExprRest(s, [ok |-> TRUE, v |-> binop(s[j], acc.v, f.v),
                                    i |-> f.i])
             ELSE NoParse
     ELSE acc

infixExpr(s, i) ==
  LET f == infixTerm(s, i)
  IN IF f.ok THEN infixExprRest(s, f) ELSE NoParse

\* The whole of s read as one infix expression.
InfixEval(s) ==
  LET r == infixExpr(s, 1)
  IN IF r.ok /\ skipSpaces(s, r.i) > Len(s) THEN r ELSE NoParse

\* The fully parenthesized form: digit+, or "(" e1 " o " e2 ... " o " en ")"
\* with one operator symbol o per group and every ei of the form again.
\* fullParen(s, i) is the index after the form that starts at i, 0 if none
\* does; fullParenRest reads the group's tail, sym its operator once seen.
RECURSIVE fullParen(_, _)
RECURSIVE fullParenRest(_, _, _)
fullParen(s, i) ==
  IF i < 1 \/ i > Len(s) THEN 0
  ELSE IF s[i] \in Digit THEN digitsEnd(s, i)
  ELSE IF s[i] = "("
  THEN LET e == fullParen(s, i + 1) IN IF e = 0 THEN 0 ELSE fullParenRest(s, e, "")
  ELSE 0

fullParenRest(s, i, sym) ==
  IF i > Len(s) THEN 0
  ELSE IF s[i] = ")" THEN i + 1
  ELSE IF /\ i + 3 <= Len(s)
          /\ s[i] = " "
          /\ s[i + 1] \in {"+", "-", "*", "/"}
          /\ sym \in {"", s[i + 1]}
          /\ s[i + 2] = " "
  THEN LET e == fullParen(s, i + 3)
       IN IF e = 0 THEN 0 ELSE fullParenRest(s, e, s[i + 1])
  ELSE 0

FullyParenthesized(s) == fullParen(s, 1) = Len(s) + 1

\* C1: for a program that is a sentence of the grammar and divides by no
\* zero, what transpile returns reads as a fully parenthesized infix
\* expression whose value under ordinary left-associative infix arithmetic is
\* the number eval returns; a node with one operand n renders as "(n)", and
\* "sum 1 2 3" renders as "(1 + 2 + 3)".
C1_TranspileAgreesWithEval ==
  (/\ Returned
   /\ out.t # "undefined"
   /\ result.t # "undefined"
   /\ IsSentence(tokens)
   /\ ~DividesByZero(ast)) =>
     LET s == toString(out)
     IN /\ FullyParenthesized(s)
        /\ InfixEval(s).ok
        /\ InfixEval(s).v = result
        /\ (ast.type = Op /\ Len(ast.expr) = 1 /\ ast.expr[1].type = Num)
             => s = <<"(">> \o toString(ast.expr[1].val) \o <<")">>
        /\ input = <<"s", "u", "m", " ", "1", " ", "2", " ", "3">>
             => out = Str(<<"(", "1", " ", "+", " ", "2", " ", "+", " ", "3", ")">>)

\* C1 witness: a nested sentence with a division and a subtraction has been
\* evaluated and transpiled.
C1_Witness ==
  /\ Returned
  /\ IsSentence(tokens)
  /\ Len(tokens) = 4
  /\ tokens[1] = tDiv
  /\ tokens[3] = tSub
  /\ ~DividesByZero(ast)
  /\ out.t = "string"
  /\ result.t = "number"
  /\ result.d > 1

\* ------------------------------------------------------------ C4, C5, C6

\* C4: for the empty input lex returns no token and parse fails: it returns
\* no Number or Operation node.
C4_EmptyInputFails ==
  input = <<>> =>
    /\ pc # "lex" => tokens = <<>>
    /\ Returned => "type" \notin DOMAIN ast

\* C5: every Operation node of a tree parse returns has at least one operand
\* (stated for the token sequences that hold a token, [mul] and [sum,1,mul]
\* among them).
C5_OperandsNeverEmpty ==
  (Returned /\ tokens # <<>>) =>
    \A n \in Subtrees(ast) : n.type = Op => Len(n.expr) >= 1

\* A token that is neither a number for parseExpr nor an operator name.
Unclassifiable(tok) == ~IsNumTok(tok) /\ tok \notin OpNames

\* C6: with a token that is neither a number nor one of sum, sub, div, mul,
\* parse returns no tree; no returned Operation node has an operator outside
\* the four names (stated for the sequences parse reads to the end: those
\* that start with a token that is no number).
C6_UnknownTokenFails ==
  (tokens # <<>> /\ ~IsNumTok(tokens[1])) =>
    /\ (\E i \in 1..Len(tokens) : Unclassifiable(tokens[i])) => ~Returned
    /\ Returned =>
         \A n \in Subtrees(ast) :
           n.type = Op => (n.val.t = "string" /\ n.val.s \in OpNames)

\* ------------------------------------------------------------ C8

\* C8: parseNum and parseOp each advance the cursor by exactly 1, the cursor
\* never decreases, the returned tree has as many nodes as the cursor's final
\* value, and the cursor never exceeds the number of tokens.
C8_CursorBoundsWork ==
  /\ [][(ParseNum \/ ParseOp) => c' = c + 1]_vars
  /\ [][c' >= c]_vars
  /\ [](Returned => NodeCount(ast) = c)
  /\ [](c <= Len(tokens))

\* ------------------------------------------------------------ C10

\* Every character of the value v is a digit.
AllDigits(v) == v.t = "string" /\ isNumber(v.s)

\* C10: parseExpr sends a token to parseNum exactly when every character of
\* it is a digit, and every other token to parseOp.
C10_NumberIffAllDigits ==
  [][/\ ParseNum => AllDigits(peek)
     /\ ParseOp => ~AllDigits(peek)]_vars

\* ------------------------------------------------------------ part_001

\* const numre = /[0-9]/;  numre.test(v)
numre(v) == v.t = "string" /\ \E i \in 1..Len(v.s) : v.s[i] \in Digit

\* const opre = /(\+|-|\*|\/)/;  opre.test(v)
opre(v) ==
  v.t = "string" /\ \E i \in 1..Len(v.s) : v.s[i] \in {"+", "-", "*", "/"}

SymTokens == {<<"+">>, <<"-">>, <<"*">>, <<"/">>, <<"1">>, <<"a", "b", "c">>}

SymPrograms == {join(ts, <<" ">>, 1) : ts \in SeqsUpTo(SymTokens, MaxSymLen)}

\* The undefined elements of the expr of the innermost open node.
Spins ==
  IF stack = <<>> THEN 0
  ELSE LET e == stack[Len(stack)].expr
       IN Cardinality({i \in 1..Len(e) : "t" \in DOMAIN e[i]})

InitSym ==
  /\ input \in SymPrograms
  /\ tokens = <<>>
  /\ c = 0
  /\ stack = <<>>
  /\ ast = Undefined
  /\ pc = "lex"
  /\ result = Undefined
  /\ out = Undefined

\* parseExpr with a token that holds a digit: parseNum reads cur() and calls
\* next().
SymParseNum ==
  /\ pc = "parse"
  /\ stack = <<>> \/ loopCond(peek)
  /\ numre(peek)
  /\ LET r == returnTo(stack, NumNode(peek))
     IN /\ stack' = r.stack
        /\ ast' = r.ast
        /\ pc' = r.pc
  /\ c' = consumeCursor(c)
  /\ UNCHANGED <<input, tokens, result, out>>

\* parseExpr with a token that holds one of + - * / and no digit: parseOp
\* opens a node, calls next() and enters its loop.
SymParseOp ==
  /\ pc = "parse"
  /\ stack = <<>> \/ loopCond(peek)
  /\ ~numre(peek)
  /\ opre(peek)
  /\ stack' = Append(stack, OpNode(peek))
  /\ c' = consumeCursor(c)
  /\ UNCHANGED <<input, tokens, ast, pc, result, out>>

\* parseExpr with a token neither pattern matches: no branch is taken, node
\* stays undefined and is returned; the cursor is not touched.
SymParseNeither ==
  /\ pc = "parse"
  /\ stack = <<>> \/ (loopCond(peek) /\ Spins < MaxSpin)
  /\ ~numre(peek)
  /\ ~opre(peek)
  /\ LET r == returnTo(stack, Undefined)
     IN /\ stack' = r.stack
        /\ ast' = r.ast
        /\ pc' = r.pc
  /\ UNCHANGED <<input, tokens, c, result, out>>

\* parseOp's loop ends and the node is returned.
SymParseOpReturn ==
  /\ pc = "parse"
  /\ stack # <<>>
  /\ ~loopCond(peek)
  /\ LET r == returnTo(SubSeq(stack, 1, Len(stack) - 1), stack[Len(stack)])
     IN /\ stack' = r.stack
        /\ ast' = r.ast
        /\ pc' = r.pc
  /\ UNCHANGED <<input, tokens, c, result, out>>

NextSym ==
  Lex \/ SymParseNum \/ SymParseOp \/ SymParseNeither \/ SymParseOpReturn

SpecSym == InitSym /\ [][NextSym]_vars

\* C9: every iteration of parseOp's while (cur()) loop advances the cursor.
C9_LoopAdvancesCursor ==
  [][(pc = "parse" /\ stack # <<>> /\ loopCond(peek)) => c' > c]_vars

=============================================================================
